---- MODULE Spec2Model ----
(***************************************************************************)
(* Model of demo.py: the SingletonMeta/Logger sink, the retry decorator    *)
(* and DataProcessor.run with one worker thread per input value.           *)
(*                                                                         *)
(* Threads are numbered by the position of their value in `values`.        *)
(* A step of a thread is one action; the points where the interpreter can  *)
(* switch threads inside SingletonMeta.__call__ and Logger.log are kept as *)
(* separate steps.                                                         *)
(***************************************************************************)
EXTENDS Integers, Sequences, FiniteSets, TLC

\* ---- bounds of the model ------------------------------------------------
MaxLen == 2            \* longest input sequence given to DataProcessor.run
MaxRetries == 4        \* largest `retries` given to the retry decorator alone

\* ---- program constants --------------------------------------------------
ProcessRetries == 2    \* @retry(retries=2) on DataProcessor.process
Unlucky == 13          \* data % 13 == 0 raises ValueError

\* input values the runs of Spec are drawn from: 0 is divisible by 13,
\* 1 and 2 are not
Items == {0, 1, 2}
\* arguments of the operation wrapped by the retry decorator on its own
Args == {3}

VARIABLES
    mode,       \* "run": DataProcessor.run;  "retry": one call of a retry-wrapped operation
    values,     \* the list given to run (in "retry" mode: the call's argument)
    retries,    \* the decorator's `retries`
    failFirst,  \* "retry" mode: the wrapped operation fails this many calls, then succeeds
    mpc,        \* position of the thread that called run: "start", "join", "returned"
    started,    \* number of worker threads started by run (len(threads))
    joined,     \* number of worker threads run has joined
    results,    \* run's `results` list
    instances,  \* SingletonMeta._instances[Logger]: 0 = absent, else the instance
    created,    \* number of Logger instances constructed (Logger.__init__ calls)
    locked,     \* the Logger instances whose _lock is held
    file,       \* the lines of app.log
    pc,         \* position of each worker
    attempt,    \* inner's loop variable of each worker
    calls,      \* number of times each worker's inner has invoked func
    ctx,        \* which Logger().log call a worker is in: "attempt", "processed", "failed"
    inst,       \* the Logger instance a worker's Logger() returned
    pos,        \* file offset (in lines) a worker's open(..., "a") was positioned at
    ret         \* "retry" mode: how inner ended: <<"none">>, <<"value", v>>, <<"raised", n>>

vars == <<mode, values, retries, failFirst, mpc, started, joined, results,
          instances, created, locked, file, pc, attempt, calls, ctx, inst, pos, ret>>

Threads == DOMAIN values

RECURSIVE SeqsUpTo(_, _)
SeqsUpTo(S, n) ==
    IF n = 0 THEN {<<>>}
    ELSE LET shorter == SeqsUpTo(S, n - 1)
         IN  shorter \cup {Append(s, x) : s \in {q \in shorter : Len(q) = n - 1}, x \in S}

\* ---- pure parts ---------------------------------------------------------

\* faulty variant: the test written so that 0 passes
RaisesExceptZero(data) == data # 0 /\ data % Unlucky = 0

\* DataProcessor.process raises for data % 13 == 0
Raises(data) == data % Unlucky = 0

\* faulty variant: data * 2 for data ** 2
SquareAsDouble(data) == data * 2

\* the value DataProcessor.process returns: data**2
Square(data) == data * data

\* faulty variant: the attempts numbered from 0
AttemptRecordFromZero(n) == [kind |-> "attempt", n |-> n - 1]

\* the log lines, by their message (the time stamp is left out):
\* f"Attempt {attempt} failed: {str(e)}"
AttemptRecord(n) == [kind |-> "attempt", n |-> n]
\* f"Processed: {data}"
ProcessedRecord(data) == [kind |-> "processed", n |-> data]
\* f"Failed processing {val}: {e}"
FailedRecord(val) == [kind |-> "failed", n |-> val]

\* the message of the log call worker t is in
Message(t) ==
    CASE ctx[t] = "attempt" -> AttemptRecord(attempt[t])
      [] ctx[t] = "processed" -> ProcessedRecord(values[t])
      [] OTHER -> FailedRecord(values[t])

\* faulty variant: the line is put in front of the file
WriteAtFront(f, p, rec) == <<rec>> \o f

\* a write through a file opened for appending when the end was at offset p:
\* it lands at p, over whatever another writer put there in the meantime
WriteAt(f, p, rec) ==
    IF p < Len(f) THEN [f EXCEPT ![p + 1] = rec] ELSE Append(f, rec)

\* ---- initial states -----------------------------------------------------

InitCommon ==
    /\ results = <<>>
    /\ instances = 0
    /\ created = 0
    /\ locked = {}
    /\ file = <<>>
    /\ attempt = [t \in Threads |-> 1]
    /\ calls = [t \in Threads |-> 0]
    /\ ctx = [t \in Threads |-> "attempt"]
    /\ inst = [t \in Threads |-> 0]
    /\ pos = [t \in Threads |-> 0]
    /\ ret = [t \in Threads |-> <<"none">>]
    /\ started = 0
    /\ joined = 0

\* DataProcessor().run(values)
Init ==
    /\ mode = "run"
    /\ values \in SeqsUpTo(Items, MaxLen)
    /\ retries = ProcessRetries
    /\ failFirst = 0
    /\ mpc = "start"
    /\ pc = [t \in Threads |-> "idle"]
    /\ InitCommon

\* DataProcessor().run([0, 1, 13, 26, 5])
DemoValues == <<0, 1, 13, 26, 5>>

InitDemo ==
    /\ mode = "run"
    /\ values = DemoValues
    /\ retries = ProcessRetries
    /\ failFirst = 0
    /\ mpc = "start"
    /\ pc = [t \in Threads |-> "idle"]
    /\ InitCommon

\* one call op(x) of an operation op decorated with @retry(retries=N), where op
\* raises on its first failFirst calls (failFirst >= N: on every call inner makes)
InitRetry ==
    /\ mode = "retry"
    /\ values \in {<<x>> : x \in Args}
    /\ retries \in 1..MaxRetries
    /\ failFirst \in 0..(retries + 1)
    /\ mpc = "none"
    /\ pc = [t \in Threads |-> "invoke"]
    /\ InitCommon

\* ---- DataProcessor.run, the calling thread --------------------------------

\* for val in values: t = Thread(target=task, args=(val,)); threads.append(t); t.start()
Start ==
    /\ mpc = "start"
    /\ started < Len(values)
    /\ started' = started + 1
    /\ pc' = [pc EXCEPT ![started + 1] = "invoke"]
    /\ UNCHANGED <<mode, values, retries, failFirst, mpc, joined, results, instances,
                   created, locked, file, attempt, calls, ctx, inst, pos, ret>>

\* the first loop is over: go on to the joins
StartDone ==
    /\ mpc = "start"
    /\ started = Len(values)
    /\ mpc' = "join"
    /\ UNCHANGED <<mode, values, retries, failFirst, started, joined, results, instances,
                   created, locked, file, pc, attempt, calls, ctx, inst, pos, ret>>

\* faulty variant: a join that does not wait for the worker
JoinNoWait ==
    /\ mpc = "join"
    /\ joined < started
    /\ joined' = joined + 1
    /\ UNCHANGED <<mode, values, retries, failFirst, mpc, started, results, instances,
                   created, locked, file, pc, attempt, calls, ctx, inst, pos, ret>>

\* for t in threads: t.join()   -- blocks until that worker has ended
Join ==
    /\ mpc = "join"
    /\ joined < started
    /\ pc[joined + 1] = "done"
    /\ joined' = joined + 1
    /\ UNCHANGED <<mode, values, retries, failFirst, mpc, started, results, instances,
                   created, locked, file, pc, attempt, calls, ctx, inst, pos, ret>>

\* return results
Return ==
    /\ mpc = "join"
    /\ joined = started
    /\ mpc' = "returned"
    /\ UNCHANGED <<mode, values, retries, failFirst, started, joined, results, instances,
                   created, locked, file, pc, attempt, calls, ctx, inst, pos, ret>>

\* ---- retry.wrapper.inner ------------------------------------------------

\* the operation wrapped in "retry" mode: it raises on its first failFirst calls
\* and returns its argument afterwards
FlakyRaises(t) == calls[t] < failFirst

\* return func(*args, **kwargs) with func = DataProcessor.process:
\* the test data % 13 == 0, raising ValueError into inner's except clause
\* or going on to time.sleep(0.01)
InvokeProcess(t) ==
    /\ mode = "run"
    /\ pc[t] = "invoke"
    /\ calls' = [calls EXCEPT ![t] = @ + 1]
    /\ IF Raises(values[t])
       THEN /\ pc' = [pc EXCEPT ![t] = "logger"]
            /\ ctx' = [ctx EXCEPT ![t] = "attempt"]
       ELSE /\ pc' = [pc EXCEPT ![t] = "work"]
            /\ ctx' = ctx
    /\ UNCHANGED <<mode, values, retries, failFirst, mpc, started, joined, results,
                   instances, created, locked, file, attempt, inst, pos, ret>>

\* return func(*args, **kwargs) with the operation of "retry" mode: the value
\* is returned to inner's caller at once, an exception goes to the except clause
InvokeFlaky(t) ==
    /\ mode = "retry"
    /\ pc[t] = "invoke"
    /\ calls' = [calls EXCEPT ![t] = @ + 1]
    /\ IF FlakyRaises(t)
       THEN /\ pc' = [pc EXCEPT ![t] = "logger"]
            /\ ctx' = [ctx EXCEPT ![t] = "attempt"]
            /\ ret' = ret
       ELSE /\ pc' = [pc EXCEPT ![t] = "ended"]
            /\ ctx' = ctx
            /\ ret' = [ret EXCEPT ![t] = <<"value", values[t]>>]
    /\ UNCHANGED <<mode, values, retries, failFirst, mpc, started, joined, results,
                   instances, created, locked, file, attempt, inst, pos>>

\* time.sleep(0.01) in process, then the call Logger().log(f"Processed: {data}")
Work(t) ==
    /\ pc[t] = "work"
    /\ pc' = [pc EXCEPT ![t] = "logger"]
    /\ ctx' = [ctx EXCEPT ![t] = "processed"]
    /\ UNCHANGED <<mode, values, retries, failFirst, mpc, started, joined, results,
                   instances, created, locked, file, attempt, calls, inst, pos, ret>>

\* ---- SingletonMeta.__call__ ---------------------------------------------

\* if cls not in cls._instances: ...  else  return cls._instances[cls]
LoggerCheck(t) ==
    /\ pc[t] = "logger"
    /\ IF instances = 0
       THEN /\ pc' = [pc EXCEPT ![t] = "construct"]
            /\ inst' = inst
       ELSE /\ pc' = [pc EXCEPT ![t] = "lock"]
            /\ inst' = [inst EXCEPT ![t] = instances]
    /\ UNCHANGED <<mode, values, retries, failFirst, mpc, started, joined, results,
                   instances, created, locked, file, attempt, calls, ctx, pos, ret>>

\* cls._instances[cls] = super().__call__(*args, **kwargs):
\* Logger.__init__ makes a new object with a new threading.Lock()
LoggerConstruct(t) ==
    /\ pc[t] = "construct"
    /\ created' = created + 1
    /\ instances' = created + 1
    /\ pc' = [pc EXCEPT ![t] = "fetch"]
    /\ UNCHANGED <<mode, values, retries, failFirst, mpc, started, joined, results,
                   locked, file, attempt, calls, ctx, inst, pos, ret>>

\* return cls._instances[cls]   -- read again after the store
LoggerFetch(t) ==
    /\ pc[t] = "fetch"
    /\ inst' = [inst EXCEPT ![t] = instances]
    /\ pc' = [pc EXCEPT ![t] = "lock"]
    /\ UNCHANGED <<mode, values, retries, failFirst, mpc, started, joined, results,
                   instances, created, locked, file, attempt, calls, ctx, pos, ret>>

\* ---- Logger.log -----------------------------------------------------------

\* with self._lock:  with open(self.filepath, "a") as f:
\* blocks while this instance's lock is held; the file is positioned at its end
LogAcquire(t) ==
    /\ pc[t] = "lock"
    /\ inst[t] \notin locked
    /\ locked' = locked \cup {inst[t]}
    /\ pos' = [pos EXCEPT ![t] = Len(file)]
    /\ pc' = [pc EXCEPT ![t] = "write"]
    /\ UNCHANGED <<mode, values, retries, failFirst, mpc, started, joined, results,
                   instances, created, file, attempt, calls, ctx, inst, ret>>

\* faulty variant: no except clause catches the error of a log call
AfterLogFailureUncaught(t) == <<"done", ctx[t]>>

\* where the error of a failed log call goes in run, as <<next position, next
\* log call>>: raised inside process it is caught by inner's except Exception
\* (line 38), which logs the attempt; raised by that call, in inner's except
\* clause, it leaves inner and is caught by task's except Exception (line 94),
\* which logs the failure; raised by that call it leaves task and the thread ends
AfterLogFailure(t) ==
    CASE ctx[t] = "processed" -> <<"logger", "attempt">>
      [] ctx[t] = "attempt" -> <<"logger", "failed">>
      [] OTHER -> <<"done", "failed">>

\* faulty variant: the lock stays held when open raises
LogOpenFailsKeepsLock(t) ==
    /\ mode = "run"
    /\ pc[t] = "lock"
    /\ inst[t] \notin locked
    /\ locked' = locked \cup {inst[t]}
    /\ pc' = [pc EXCEPT ![t] = AfterLogFailure(t)[1]]
    /\ ctx' = [ctx EXCEPT ![t] = AfterLogFailure(t)[2]]
    /\ inst' = [inst EXCEPT ![t] = 0]
    /\ ret' = [ret EXCEPT ![t] = IF AfterLogFailure(t)[1] = "done"
                                 THEN <<"unhandled">> ELSE @]
    /\ UNCHANGED <<mode, values, retries, failFirst, mpc, started, joined, results,
                   instances, created, file, attempt, calls, pos>>

\* with self._lock:  with open(self.filepath, "a") as f:   -- the storage is
\* unavailable and open raises OSError: the lock, once acquired, is released
\* by the with statement as the error leaves log, nothing is written
LogOpenFails(t) ==
    /\ mode = "run"
    /\ pc[t] = "lock"
    /\ inst[t] \notin locked
    /\ pc' = [pc EXCEPT ![t] = AfterLogFailure(t)[1]]
    /\ ctx' = [ctx EXCEPT ![t] = AfterLogFailure(t)[2]]
    /\ inst' = [inst EXCEPT ![t] = 0]
    /\ ret' = [ret EXCEPT ![t] = IF AfterLogFailure(t)[1] = "done"
                                 THEN <<"unhandled">> ELSE @]
    /\ UNCHANGED <<mode, values, retries, failFirst, mpc, started, joined, results,
                   instances, created, locked, file, attempt, calls, pos>>

\* faulty variant: the last attempt taken to be the one before retries
AfterLogOneEarly(t) ==
    CASE ctx[t] = "processed" -> "append"
      [] ctx[t] = "attempt" -> IF attempt[t] >= retries - 1 THEN "raise" ELSE "backoff"
      [] OTHER -> "done"

\* faulty variant: the failure is raised only on an attempt beyond retries
AfterLogOneLate(t) ==
    CASE ctx[t] = "processed" -> "append"
      [] ctx[t] = "attempt" -> IF attempt[t] > retries THEN "raise" ELSE "backoff"
      [] OTHER -> "done"

\* where a worker goes when its log call returns
AfterLog(t) ==
    CASE ctx[t] = "processed" -> "append"
      [] ctx[t] = "attempt" -> IF attempt[t] = retries THEN "raise" ELSE "backoff"
      [] OTHER -> "done"

\* faulty variant: the lock is not released when log returns
LogWriteKeepsLock(t) ==
    /\ pc[t] = "write"
    /\ file' = WriteAt(file, pos[t], Message(t))
    /\ pos' = [pos EXCEPT ![t] = 0]
    /\ inst' = [inst EXCEPT ![t] = 0]
    /\ pc' = [pc EXCEPT ![t] = AfterLog(t)]
    /\ UNCHANGED <<mode, values, retries, failFirst, mpc, started, joined, results,
                   instances, created, locked, attempt, calls, ctx, ret>>

\* f.write(...), the file is closed and the lock released; log returns and
\* the caller's references to the file object and to the Logger are dropped
LogWrite(t) ==
    /\ pc[t] = "write"
    /\ file' = WriteAt(file, pos[t], Message(t))
    /\ locked' = locked \ {inst[t]}
    /\ pos' = [pos EXCEPT ![t] = 0]
    /\ inst' = [inst EXCEPT ![t] = 0]
    /\ pc' = [pc EXCEPT ![t] = AfterLog(t)]
    /\ UNCHANGED <<mode, values, retries, failFirst, mpc, started, joined, results,
                   instances, created, attempt, calls, ctx, ret>>

\* The whole of a call Logger().log(message) as one step, as it runs when no
\* other thread is inside SingletonMeta.__call__ or Logger.log meanwhile: the
\* Logger is constructed if there is none, its lock is taken, the line is
\* appended at the end of the file and the lock is released.
LogCall(t) ==
    /\ pc[t] = "logger"
    /\ created' = IF instances = 0 THEN created + 1 ELSE created
    /\ instances' = IF instances = 0 THEN created + 1 ELSE instances
    /\ file' = WriteAt(file, Len(file), Message(t))
    /\ pc' = [pc EXCEPT ![t] = AfterLog(t)]
    /\ UNCHANGED <<mode, values, retries, failFirst, mpc, started, joined, results,
                   locked, attempt, calls, ctx, inst, pos, ret>>

\* ---- retry.wrapper.inner, after the log of a failed attempt ---------------

\* faulty variant: after the sleep the same attempt is made again
BackoffSameAttempt(t) ==
    /\ pc[t] = "backoff"
    /\ pc' = [pc EXCEPT ![t] = "invoke"]
    /\ UNCHANGED <<mode, values, retries, failFirst, mpc, started, joined, results,
                   instances, created, locked, file, attempt, calls, ctx, inst, pos, ret>>

\* time.sleep(delay), then the next iteration of for attempt in range(1, retries + 1)
Backoff(t) ==
    /\ pc[t] = "backoff"
    /\ attempt' = [attempt EXCEPT ![t] = @ + 1]
    /\ pc' = [pc EXCEPT ![t] = "invoke"]
    /\ UNCHANGED <<mode, values, retries, failFirst, mpc, started, joined, results,
                   instances, created, locked, file, calls, ctx, inst, pos, ret>>

\* faulty variant: task without its except clause, the exception ends the thread
RaiseToTaskUncaught(t) ==
    /\ mode = "run"
    /\ pc[t] = "raise"
    /\ pc' = [pc EXCEPT ![t] = "done"]
    /\ UNCHANGED <<mode, values, retries, failFirst, mpc, started, joined, results,
                   instances, created, locked, file, attempt, calls, ctx, inst, pos, ret>>

\* if attempt == retries: raise   -- into task's except clause, which calls
\* Logger().log(f"Failed processing {val}: {e}")
RaiseToTask(t) ==
    /\ mode = "run"
    /\ pc[t] = "raise"
    /\ pc' = [pc EXCEPT ![t] = "logger"]
    /\ ctx' = [ctx EXCEPT ![t] = "failed"]
    /\ ret' = ret
    /\ UNCHANGED <<mode, values, retries, failFirst, mpc, started, joined, results,
                   instances, created, locked, file, attempt, calls, inst, pos>>

\* if attempt == retries: raise   -- "retry" mode: to the caller of the wrapped operation
RaiseToCaller(t) ==
    /\ mode = "retry"
    /\ pc[t] = "raise"
    /\ pc' = [pc EXCEPT ![t] = "ended"]
    /\ ret' = [ret EXCEPT ![t] = <<"raised", attempt[t]>>]
    /\ UNCHANGED <<mode, values, retries, failFirst, mpc, started, joined, results,
                   instances, created, locked, file, attempt, calls, ctx, inst, pos>>

\* ---- DataProcessor.run.task -----------------------------------------------

\* faulty variant: a value already in results is not appended again
TaskAppendDistinct(t) ==
    /\ pc[t] = "append"
    /\ results' = IF \E j \in DOMAIN results : results[j] = Square(values[t])
                  THEN results
                  ELSE Append(results, Square(values[t]))
    /\ pc' = [pc EXCEPT ![t] = "done"]
    /\ UNCHANGED <<mode, values, retries, failFirst, mpc, started, joined,
                   instances, created, locked, file, attempt, calls, ctx, inst, pos, ret>>

\* faulty variant: results = [res] for results.append(res)
TaskAppendReplace(t) ==
    /\ pc[t] = "append"
    /\ results' = <<Square(values[t])>>
    /\ pc' = [pc EXCEPT ![t] = "done"]
    /\ UNCHANGED <<mode, values, retries, failFirst, mpc, started, joined,
                   instances, created, locked, file, attempt, calls, ctx, inst, pos, ret>>

\* res = self.process(val) has returned data**2;  results.append(res)
TaskAppend(t) ==
    /\ pc[t] = "append"
    /\ results' = Append(results, Square(values[t]))
    /\ pc' = [pc EXCEPT ![t] = "done"]
    /\ UNCHANGED <<mode, values, retries, failFirst, mpc, started, joined,
                   instances, created, locked, file, attempt, calls, ctx, inst, pos, ret>>

\* a step of worker t in DataProcessor.run
WorkerStep(t) ==
    \/ InvokeProcess(t)
    \/ Work(t)
    \/ LoggerCheck(t)
    \/ LoggerConstruct(t)
    \/ LoggerFetch(t)
    \/ LogAcquire(t)
    \/ LogWrite(t)
    \/ Backoff(t)
    \/ RaiseToTask(t)
    \/ TaskAppend(t)

\* ---- specifications -------------------------------------------------------

\* DataProcessor.run: the calling thread and its workers, step by step
Next ==
    \/ Start
    \/ StartDone
    \/ Join
    \/ Return
    \/ \E t \in Threads : InvokeProcess(t)
    \/ \E t \in Threads : Work(t)
    \/ \E t \in Threads : LoggerCheck(t)
    \/ \E t \in Threads : LoggerConstruct(t)
    \/ \E t \in Threads : LoggerFetch(t)
    \/ \E t \in Threads : LogAcquire(t)
    \/ \E t \in Threads : LogWrite(t)
    \/ \E t \in Threads : Backoff(t)
    \/ \E t \in Threads : RaiseToTask(t)
    \/ \E t \in Threads : TaskAppend(t)

Spec == Init /\ [][Next]_vars

\* Spec with the scheduler's guarantee that a thread that can run does run
FairSpec == Spec /\ WF_vars(Next)

\* The run of the example input has five workers.  Its specification takes each
\* Logger().log call as one step (LogCall); the steps of a worker between its
\* log calls, and the calling thread, are those of Spec.
NextDemo ==
    \/ Start
    \/ StartDone
    \/ Join
    \/ Return
    \/ \E t \in Threads : InvokeProcess(t)
    \/ \E t \in Threads : Work(t)
    \/ \E t \in Threads : LogCall(t)
    \/ \E t \in Threads : Backoff(t)
    \/ \E t \in Threads : RaiseToTask(t)
    \/ \E t \in Threads : TaskAppend(t)

SpecDemo == InitDemo /\ [][NextDemo]_vars

\* the steps of one call of a retry-wrapped operation
NextRetry ==
    \/ \E t \in Threads : InvokeFlaky(t)
    \/ \E t \in Threads : LoggerCheck(t)
    \/ \E t \in Threads : LoggerConstruct(t)
    \/ \E t \in Threads : LoggerFetch(t)
    \/ \E t \in Threads : LogAcquire(t)
    \/ \E t \in Threads : LogWrite(t)
    \/ \E t \in Threads : Backoff(t)
    \/ \E t \in Threads : RaiseToCaller(t)

SpecRetry == InitRetry /\ [][NextRetry]_vars

\* DataProcessor.run where the storage of the log file may be unavailable at
\* any log call
NextIO ==
    \/ Next
    \/ \E t \in Threads : LogOpenFails(t)

SpecIO == Init /\ [][NextIO]_vars

\* ---- the claims ------------------------------------------------------------

\* the workers inside the write section of Logger.log
Writers == {t \in Threads : pc[t] = "write"}

\* the input positions whose value is not divisible by 13
NotDivisible == {i \in DOMAIN values : values[i] % 13 # 0}

\* how often x occurs in the sequence s
Occurrences(s, x) == Cardinality({j \in DOMAIN s : s[j] = x})

\* C1: in every reachable state of DataProcessor.run at most one worker is
\* inside the write section of Logger.log.
C1_OneWriterAtATime == Cardinality(Writers) <= 1

\* C2: Logger.__init__ runs at most once and every Logger() call returns the
\* same instance, under every interleaving.
C2_OneLoggerInstance ==
    /\ created <= 1
    /\ \A t, u \in Threads : (inst[t] # 0 /\ inst[u] # 0) => inst[t] = inst[u]

\* C3: when run returns, the number of results equals the number of input
\* items that are not divisible by 13.
C3_ResultCount ==
    mpc = "returned" => Len(results) = Cardinality(NotDivisible)

\* a returned run whose input had items divisible by 13 and items that are not
C3_Witness ==
    /\ mpc = "returned"
    /\ NotDivisible # {}
    /\ NotDivisible # DOMAIN values

\* C4 as stated: for every non-failing item x of the input, x*x appears exactly
\* once in the returned collection.
C4_SquareExactlyOnce ==
    mpc = "returned" =>
        \A i \in NotDivisible : Occurrences(results, values[i] * values[i]) = 1

\* C4 as amended: for every non-failing item x of the input, x*x appears in the
\* returned collection once for each non-failing input item whose square is x*x.
C4_SquareOncePerItem ==
    mpc = "returned" =>
        \A i \in NotDivisible :
            Occurrences(results, values[i] * values[i])
                = Cardinality({j \in NotDivisible : values[j] * values[j] = values[i] * values[i]})

\* a returned run whose input repeats a non-failing value
C4_Witness ==
    /\ mpc = "returned"
    /\ \E i, j \in NotDivisible : i # j /\ values[i] = values[j]

\* the values in the sequence s
Range(s) == {s[j] : j \in DOMAIN s}

\* C5 as stated: run on [0, 1, 13, 26, 5] with 2 attempts returns exactly the
\* values {0, 1, 25} and no result for 13 or 26.
C5_DemoReturnsZeroOneTwentyFive ==
    mpc = "returned" => Range(results) = {0, 1, 25}

\* C5 as amended: run on [0, 1, 13, 26, 5] with 2 attempts returns exactly the
\* values {1, 25}, each once, and no result for 0, 13 or 26 (nor does any of
\* these ever enter the collection before run returns).
C5_DemoReturnsOneTwentyFive ==
    /\ Range(results) \subseteq {1, 25}
    /\ mpc = "returned" => (Range(results) = {1, 25} /\ Len(results) = 2)

\* the example run has returned, the worker of 5 having finished before that of 1
C5_Witness ==
    /\ values = <<0, 1, 13, 26, 5>>
    /\ retries = 2
    /\ mpc = "returned"
    /\ results = <<25, 1>>

\* the lines "Attempt 1 failed", ..., "Attempt k failed", in that order
AttemptLines(k) == [i \in 1..k |-> [kind |-> "attempt", n |-> i]]

\* C6: with retries = N and an operation that fails exactly k < N times and
\* then succeeds, the call returns the operation's value and the sink holds
\* exactly the k failure records of attempts 1..k, in that order.
C6_RetryReturnsValue ==
    \A t \in Threads :
        (mode = "retry" /\ pc[t] = "ended" /\ failFirst < retries) =>
            /\ ret[t] = <<"value", values[t]>>
            /\ calls[t] = failFirst + 1
            /\ file = AttemptLines(failFirst)

\* a call that ended after two failed attempts and a successful third
C6_Witness ==
    \E t \in Threads :
        /\ mode = "retry"
        /\ pc[t] = "ended"
        /\ failFirst = 2
        /\ retries > 2
        /\ ret[t][1] = "value"

\* C7: with retries = N and an operation that fails on every call, the
\* operation is invoked exactly N times, exactly N failure records are
\* appended, and the failure of attempt N is raised to the caller.
C7_RetryExhausts ==
    \A t \in Threads :
        (mode = "retry" /\ failFirst >= retries) =>
            /\ calls[t] <= retries
            /\ ret[t][1] # "value"
            /\ pc[t] = "ended" =>
                /\ calls[t] = retries
                /\ file = AttemptLines(retries)
                /\ ret[t] = <<"raised", retries>>

\* a call with retries = 3 that ended by raising
C7_Witness ==
    \E t \in Threads :
        /\ mode = "retry"
        /\ pc[t] = "ended"
        /\ retries = 3
        /\ failFirst > 3
        /\ ret[t][1] = "raised"

C9_RunTerminates ==
    /\ <>(mpc = "returned")
    /\ [](mpc = "returned" \/ ENABLED Next)
    /\ [](mpc = "returned" =>
            /\ \A t \in Threads : pc[t] = "done"
            /\ values = <<>> => results = <<>>)

\* a returned run in which one worker succeeded and another exhausted its
\* attempts, all four of their log lines being in the sink
C9_Witness ==
    /\ mpc = "returned"
    /\ \E t, u \in Threads : ~Raises(values[t]) /\ Raises(values[u])
    /\ Len(results) = 1
    /\ Len(file) >= 4

\* C10: run starts exactly one worker per input item and returns only after
\* all of them have finished: at the return every worker has been started and
\* joined and none is running or sleeping, no worker is started twice, and
\* after the return neither the results nor the sink change.
C10_ReturnsAfterAllWorkers ==
    /\ [](mpc = "returned" =>
            /\ started = Len(values)
            /\ joined = Len(values)
            /\ \A t \in Threads : pc[t] = "done")
    /\ [][\A t \in Threads : pc[t] # "idle" => pc'[t] # "idle"]_vars
    /\ [][mpc = "returned" => (results' = results /\ file' = file)]_vars

\* a returned run of two workers, one of which slept between its attempts
C10_Witness ==
    /\ mpc = "returned"
    /\ Len(values) >= 2
    /\ \E t \in Threads : attempt[t] = 2 /\ pc[t] = "done"

\* the workers whose item makes process raise on every attempt
Failing == {t \in Threads : values[t] % 13 = 0}

\* C11: a per-item failure never reaches the caller of run: a worker whose item
\* fails is never handed a result, it ends only by completing the log call of
\* its failure handler, whose 'Failed processing' line is then in the sink at
\* the place it was written to, it appends nothing to the results, and run
\* returns with the results of the other items.
C11_FailureStaysInWorker ==
    /\ [](\A t \in Failing :
            /\ pc[t] \notin {"work", "append"}
            /\ pc[t] = "done" => (ctx[t] = "failed" /\ attempt[t] = retries))
    /\ [][\A t \in Failing :
            /\ (pc[t] # "done" /\ pc'[t] = "done") =>
                  /\ pc[t] = "write"
                  /\ pos[t] < Len(file')
                  /\ file'[pos[t] + 1] = [kind |-> "failed", n |-> values[t]]
            /\ (pc[t] = "write" /\ ctx[t] = "failed") => pc'[t] \in {"write", "done"}
            /\ pc'[t] # pc[t] => results' = results]_vars
    /\ [](mpc = "returned" =>
            Len(results) = Cardinality(Threads \ Failing))

\* run has returned the result of one item, the other item having failed
C11_Witness ==
    /\ mpc = "returned"
    /\ Cardinality(Failing) = 1
    /\ results = <<1>>
    /\ \E j \in DOMAIN file : file[j] = [kind |-> "failed", n |-> 0]

C13_SleepBlocksNobody ==
    \A t \in Threads :
        pc[t] = "backoff" =>
            /\ locked = {inst[w] : w \in Writers}
            /\ \A u \in Threads \ {t} :
                  pc[u] \notin {"idle", "done"} =>
                      \/ ENABLED WorkerStep(u)
                      \/ /\ pc[u] = "lock"
                         /\ \E w \in Writers \ {t} :
                               inst[w] = inst[u] /\ ENABLED WorkerStep(w)

\* one worker sleeps between its attempts while another is writing to the sink
C13_Witness ==
    \E t, u \in Threads : pc[t] = "backoff" /\ pc[u] = "write"

\* the line "Processed: v" stands before the line "Processed: w" in the sink
ProcessedBefore(v, w) ==
    \E i, j \in DOMAIN file :
        /\ i < j
        /\ file[i] = [kind |-> "processed", n |-> v]
        /\ file[j] = [kind |-> "processed", n |-> w]

\* worker a is in its call of log, at the guard, and worker b has not yet
\* called log; their items succeed and differ, so each logs one line of its own
StartedLogFirst(a, b) ==
    /\ a \in Threads
    /\ b \in Threads
    /\ values[a] % 13 # 0
    /\ values[b] % 13 # 0
    /\ values[a] # values[b]
    /\ pc[a] = "lock"
    /\ pc[b] \in {"idle", "invoke", "work", "logger", "construct", "fetch"}

C15_SingleAttempt ==
    \A t \in Threads :
        (mode = "retry" /\ retries = 1) =>
            /\ pc[t] # "backoff"
            /\ attempt[t] = 1
            /\ calls[t] <= 1
            /\ Len(file) <= 1
            /\ (pc[t] = "raise" /\ failFirst >= 1) =>
                  /\ calls[t] = 1
                  /\ file = <<[kind |-> "attempt", n |-> 1]>>
            /\ (pc[t] = "ended" /\ failFirst >= 1) =>
                  /\ calls[t] = 1
                  /\ file = <<[kind |-> "attempt", n |-> 1]>>
                  /\ ret[t] = <<"raised", 1>>
            /\ (pc[t] = "ended" /\ failFirst = 0) =>
                  /\ calls[t] = 1
                  /\ file = <<>>
                  /\ ret[t] = <<"value", values[t]>>

\* a call with retries = 1 whose only attempt failed and was raised
C15_Witness ==
    \E t \in Threads :
        /\ mode = "retry"
        /\ retries = 1
        /\ failFirst >= 1
        /\ pc[t] = "ended"
        /\ calls[t] = 1
        /\ ret[t] = <<"raised", 1>>

C17_BackoffBetweenAttempts ==
    /\ [](\A t \in Threads : mode = "retry" =>
            /\ pc[t] = "backoff" =>
                  /\ attempt[t] < retries
                  /\ calls[t] = attempt[t]
                  /\ attempt[t] <= failFirst
                  /\ file = [i \in 1..attempt[t] |-> [kind |-> "attempt", n |-> i]]
            /\ pc[t] = "invoke" =>
                  /\ calls[t] = attempt[t] - 1
                  /\ file = [i \in 1..(attempt[t] - 1) |-> [kind |-> "attempt", n |-> i]]
            /\ pc[t] = "raise" =>
                  /\ attempt[t] = retries
                  /\ calls[t] = retries
                  /\ file = [i \in 1..retries |-> [kind |-> "attempt", n |-> i]])
    /\ [][\A t \in Threads : mode = "retry" =>
            /\ (pc[t] # "backoff" /\ pc'[t] = "backoff") =>
                  /\ pc[t] = "write"
                  /\ ctx[t] = "attempt"
                  /\ Len(file') = attempt[t]
            /\ (pc[t] = "backoff" /\ pc'[t] # "backoff") =>
                  /\ pc'[t] = "invoke"
                  /\ attempt'[t] = attempt[t] + 1
                  /\ file' = file
            /\ (pc[t] # "invoke" /\ pc'[t] = "invoke") => pc[t] = "backoff"
            /\ (pc[t] = "invoke" /\ pc'[t] # "invoke") =>
                  \/ pc'[t] = "ended" /\ ret'[t] = <<"value", values[t]>>
                  \/ pc'[t] = "logger" /\ ctx'[t] = "attempt"
            /\ (pc[t] # "raise" /\ pc'[t] = "raise") =>
                  /\ pc[t] = "write"
                  /\ attempt[t] = retries
            /\ (pc[t] = "raise" /\ pc'[t] # "raise") =>
                  /\ pc'[t] = "ended"
                  /\ ret'[t] = <<"raised", retries>>
                  /\ file' = file]_vars

\* a call sleeping after its second failed attempt, both records in the sink
C17_Witness ==
    \E t \in Threads :
        /\ mode = "retry"
        /\ pc[t] = "backoff"
        /\ attempt[t] = 2
        /\ Len(file) = 2

LogFails(t) == pc[t] = "lock" /\ pc'[t] \notin {"lock", "write"}

\* C19 as stated: a failure of the sink write inside a worker is never caught:
\* it ends that worker thread, so an item whose success record could not be
\* written is not retried (process is invoked once for it) and contributes no
\* result.
C19_LogFailureEndsWorker ==
    /\ [][\A t \in Threads : LogFails(t) => pc'[t] = "done"]_vars
    /\ [](\A t \in Threads \ Failing : calls[t] <= 1)

\* C19 as amended: a failure of a log call made from process is caught by the
\* retry wrapper like a failure of the operation: the attempt is logged and,
\* if an attempt is left, the item is retried and can still contribute a
\* result.  A failure of the wrapper's own log call leaves the wrapper and is
\* caught by the worker's failure handler, which logs the failure.  Only a
\* failure of the failure handler's log call is uncaught and ends the worker
\* thread.  No failed log call adds a result.
C19_LogFailureCaughtWhereEnclosed ==
    /\ [][\A t \in Threads : LogFails(t) =>
            /\ ctx[t] = "processed" =>
                  /\ pc'[t] = "logger"
                  /\ ctx'[t] = "attempt"
                  /\ attempt'[t] = attempt[t]
            /\ ctx[t] = "attempt" =>
                  /\ pc'[t] = "logger"
                  /\ ctx'[t] = "failed"
            /\ ctx[t] = "failed" =>
                  /\ pc'[t] = "done"
                  /\ ret'[t] = <<"unhandled">>
            /\ results' = results]_vars
    /\ [](\A t \in Threads :
            /\ calls[t] <= retries
            /\ ret[t] = <<"unhandled">> => (pc[t] = "done" /\ ctx[t] = "failed")
            /\ (pc[t] = "backoff" /\ t \notin Failing) => attempt[t] < retries)
    /\ [](Len(results) = Cardinality({t \in Threads : pc[t] = "done" /\ ctx[t] = "processed"}))

\* an item whose first success record could not be written was retried and
\* has contributed its result
C19_Witness ==
    \E t \in Threads \ Failing :
        /\ pc[t] = "done"
        /\ calls[t] = 2
        /\ ctx[t] = "processed"
        /\ values[t] * values[t] \in Range(results)

\* C20: when the storage is unavailable, log fails with an error that goes to
\* its caller, appends nothing and leaves the guard released: every held guard
\* belongs to a call inside its write section, every call waiting at the guard
\* can acquire it or waits for such a call, which can go on, and no state before
\* the return of run is a deadlock.
C20_FailedLogReleasesGuard ==
    /\ [][\A t \in Threads : LogFails(t) =>
            /\ file' = file
            /\ locked' = locked
            /\ inst[t] \notin locked'
            /\ pc'[t] \in {"logger", "done"}
            /\ pc'[t] = "done" => ret'[t] = <<"unhandled">>]_vars
    /\ [](locked = {inst[w] : w \in Writers})
    /\ [](\A u \in Threads : pc[u] = "lock" =>
            \/ ENABLED LogAcquire(u)
            \/ \E w \in Writers : inst[w] = inst[u] /\ ENABLED LogWrite(w))
    /\ [](mpc = "returned" \/ ENABLED NextIO)

\* after worker t's log call in process has failed (t is in the wrapper's log
\* call for an item that does not fail), worker u has acquired the guard
C20_Witness ==
    \E t \in Threads \ Failing : \E u \in Threads \ {t} :
        /\ pc[t] \in {"logger", "lock"}
        /\ ctx[t] = "attempt"
        /\ pc[u] = "write"
        /\ instances = 1 /\ created = 1

====
